---- MODULE Spec2Model ----
(***************************************************************************)
(* Model of the evaluation harness of src/src/main.rs.                     *)
(*                                                                         *)
(* Text that the program inspects (documents, prompt templates, oracle     *)
(* replies, payloads) is a sequence of one-character strings, so that the  *)
(* regular expressions, str::replace and str::to_lowercase are computed    *)
(* character by character.  Text that is only carried along (file names,   *)
(* model identifiers, error messages, status words) is a TLA+ string.      *)
(* Option<String> is <<>> for None and <<s>> for Some(s).                  *)
(*                                                                         *)
(* The model starts after main has opened the report and written its      *)
(* header (line 17).  One action is one stretch of main and process that   *)
(* runs without suspending: from the head of the loop to the first await   *)
(* (line 72), from there to the second await (line 95), and from there to  *)
(* the row written by main.  The settings are read anew by every call of   *)
(* process but do not change during a run, so they are fixed by Init.      *)
(* Not modelled: failures of the start-up (lines 11-16), write errors of   *)
(* the report, console output, and lowercasing of non-ASCII characters.    *)
(***************************************************************************)
EXTENDS Naturals, Sequences, FiniteSets, TLC

(***************************************************************************)
(* Text helpers                                                            *)
(***************************************************************************)

\* s[from..] as a sequence (empty when from > Len(s)).
Drop(s, n) == SubSeq(s, n + 1, Len(s))

\* TRUE iff needle occurs in hay at position i.
OccursAt(hay, needle, i) ==
    /\ i >= 1
    /\ i + Len(needle) - 1 <= Len(hay)
    /\ (needle = <<>> \/ hay[i] = needle[1])
    /\ SubSeq(hay, i, i + Len(needle) - 1) = needle

\* Position of the first occurrence of needle in hay at or after from, 0 if none.
Find(hay, needle, from) ==
    LET hits == { i \in from..Len(hay) : OccursAt(hay, needle, i) }
    IN  IF hits = {} THEN 0 ELSE CHOOSE i \in hits : \A j \in hits : i <= j

\* The markers of a test document.
InputOpen   == <<"<", "i", "n", "p", "u", "t", ">">>
InputClose  == <<"<", "/", "i", "n", "p", "u", "t", ">">>
OutputOpen  == <<"<", "o", "u", "t", "p", "u", "t", ">">>
OutputClose == <<"<", "/", "o", "u", "t", "p", "u", "t", ">">>

\* Variant of Captures for a greedy pattern, <open>(.*)</open>: the match
\* runs to the last closing tag.
Captures_greedy(open, close, contents) ==
    LET i == Find(contents, open, 1)
        ends == { j \in 1..Len(contents) :
                    j >= i + Len(open) /\ OccursAt(contents, close, j) }
    IN  IF i = 0 \/ ends = {} THEN <<>>
        ELSE LET j == CHOOSE e \in ends : \A f \in ends : f <= e
             IN  << SubSeq(contents, i + Len(open), j - 1) >>

\* Regex (?s)<open>(.*?)</open> applied with captures(): the leftmost match
\* starts at the first opening tag and, being lazy, ends with the first
\* closing tag that starts at or after the end of that opening tag.  The
\* result is Option<&str>: <<>> when there is no match, else <<group 1>>.
Captures(open, close, contents) ==
    LET i == Find(contents, open, 1)
        j == IF i = 0 THEN 0 ELSE Find(contents, close, i + Len(open))
    IN  IF i = 0 \/ j = 0 THEN <<>>
        ELSE << SubSeq(contents, i + Len(open), j - 1) >>

\* Variant of output_r whose pattern lacks the closing tag: <output>(.*?)
output_r_open_only(contents) == Captures(OutputOpen, <<>>, contents)

input_r(contents) == Captures(InputOpen, InputClose, contents)

output_r(contents) == Captures(OutputOpen, OutputClose, contents)

\* Regex (\{(.|\n)*?\}|\[(.|\n)*?\]) applied with find(): the leftmost
\* position at which one of the two alternatives matches, i.e. the first
\* "{" that has a "}" after it or "[" that has a "]" after it, whichever
\* comes first; the match ends at the nearest such closing character.
Closer(c) == IF c = "{" THEN "}" ELSE "]"

PayloadStarts(message) ==
    { p \in 1..Len(message) :
        /\ message[p] \in {"{", "["}
        /\ Find(message, <<Closer(message[p])>>, p + 1) # 0 }

\* Variant of r_find whose pattern lets either closing character end either
\* kind of payload: [\{\[](.|\n)*?[\}\]]
r_find_any_closer(message) ==
    LET closes(p) == { q \in (p + 1)..Len(message) : message[q] \in {"}", "]"} }
        starts == { p \in 1..Len(message) :
                      message[p] \in {"{", "["} /\ closes(p) # {} }
    IN  IF starts = {} THEN <<>>
        ELSE LET p == CHOOSE i \in starts : \A j \in starts : i <= j
                 q == CHOOSE i \in closes(p) : \A j \in closes(p) : i <= j
             IN  << SubSeq(message, p, q) >>

\* A match attempted at the first opening character only.
r_find_first_opener(message) ==
    LET openers == {i \in 1..Len(message) : message[i] \in {"{", "["}}
    IN  IF openers = {} THEN <<>>
        ELSE LET p == CHOOSE i \in openers : \A j \in openers : i <= j
                 q == Find(message, <<Closer(message[p])>>, p + 1)
             IN  IF q = 0 THEN <<>> ELSE << SubSeq(message, p, q) >>

r_find(message) ==
    LET starts == PayloadStarts(message)
    IN  IF starts = {} THEN <<>>
        ELSE LET p == CHOOSE i \in starts : \A j \in starts : i <= j
                 q == Find(message, <<Closer(message[p])>>, p + 1)
             IN  << SubSeq(message, p, q) >>

\* str::replace(from, to): every non-overlapping occurrence of from, found
\* scanning left to right, is replaced by to.
RECURSIVE replace(_, _, _)
replace(s, from, to) ==
    IF Len(s) < Len(from) THEN s
    ELSE IF OccursAt(s, from, 1)
         THEN to \o replace(Drop(s, Len(from)), from, to)
         ELSE <<s[1]>> \o replace(Tail(s), from, to)

\* str::to_lowercase on ASCII text: the 26 capitals and their lower-case
\* letters; every other ASCII character is left as it is.
UpperChars == <<"A", "B", "C", "D", "E", "F", "G", "H", "I", "J", "K", "L", "M",
                "N", "O", "P", "Q", "R", "S", "T", "U", "V", "W", "X", "Y", "Z">>
LowerChars == <<"a", "b", "c", "d", "e", "f", "g", "h", "i", "j", "k", "l", "m",
                "n", "o", "p", "q", "r", "s", "t", "u", "v", "w", "x", "y", "z">>

LowerChar(c) ==
    IF \E i \in 1..Len(UpperChars) : UpperChars[i] = c
    THEN LowerChars[CHOOSE i \in 1..Len(UpperChars) : UpperChars[i] = c]
    ELSE c

to_lowercase(s) == [i \in 1..Len(s) |-> LowerChar(s[i])]

(***************************************************************************)
(* Inputs: the corpus, the configuration, the script and the oracle        *)
(***************************************************************************)

\* The most files the corpus directory holds.
MaxFiles == 2

\* The name of the i-th regular file fs::read_dir yields: its bytes are
\* valid UTF-8 (text is the name) or not (text renders the bytes).
Utf8Name(i)    == [utf8 |-> TRUE,  text |-> "t" \o ToString(i) \o ".txt"]
NonUtf8Name(i) == [utf8 |-> FALSE, text |-> "<ff>" \o ToString(i) \o ".txt"]

\* The regular files fs::read_dir enumerates in a directory of n files, in
\* the order it yields them (line 18), which is any order: each name is
\* valid UTF-8 or not, and the names are pairwise distinct.
FileNames(n) ==
    { [i \in 1..n |-> IF i \in bad THEN NonUtf8Name(i) ELSE Utf8Name(i)] :
          bad \in SUBSET (1..n) }

\* The documents a test-case file may hold.
DocBoth      == InputOpen \o <<"a">> \o InputClose
                \o OutputOpen \o <<"b">> \o OutputClose
DocReversed  == OutputOpen \o <<"b">> \o OutputClose \o <<"\n">>
                \o InputOpen \o <<"a", "\n", "c">> \o InputClose \o InputClose
DocNoOutput  == InputOpen \o <<"a">> \o InputClose \o OutputOpen \o <<"b">>
DocNoInput   == InputClose \o <<"a">> \o InputOpen
                \o OutputOpen \o <<"b">> \o OutputClose
Docs == {DocBoth, DocReversed, DocNoOutput, DocNoInput}

\* The placeholders of the prompt templates.
PhDescription == <<"_", "_", "d", "e", "s", "c", "r", "i", "p", "t", "i", "o", "n", "_", "_">>
PhBaseline    == <<"_", "_", "b", "a", "s", "e", "l", "i", "n", "e", "_", "_">>
PhInput       == <<"_", "_", "i", "n", "p", "u", "t", "_", "_">>

\* The contents of the files GEN_PROMPT and TEST_PROMPT name.
GenPrompts  == { <<"G", ":">> \o PhDescription }
TestPromptFull  == PhDescription \o <<"|">> \o PhBaseline \o <<"|">> \o PhInput
TestPromptShort == PhInput \o <<"=">> \o PhBaseline
TestPrompts == {TestPromptFull, TestPromptShort}

\* The Lua sources the file STRUCTURE_TEST names may hold:
\*   accept       function test(s) return true end
\*   reject       function test(s) return false end
\*   raise        function test(s) error("boom") end
\*   object_only  function test(s) return s:sub(1, 1) == "{" end
\*   stateful     count = (count or 0) + 1
\*                function test(s) return count == 1 end
\*   load_error   a chunk that does not compile, or raises at top level
\*   no_test      a chunk that defines no global named test
Scripts == {"accept", "reject", "raise", "object_only", "stateful",
            "load_error", "no_test"}

Models == {"m1", "m2"}

\* Option<T>: what env::var / fs::read_to_string may return for a setting.
None    == <<>>
Some(v) == <<v>>
Opt(S)  == {None} \cup { Some(v) : v \in S }

\* What the settings GEN_PROMPT, TEST_PROMPT, STRUCTURE_TEST and model may
\* yield when process reads them (lines 59-62): None when the variable is
\* unset or the file it names cannot be read.
Configs == [ GEN_PROMPT : Opt(GenPrompts), TEST_PROMPT : Opt(TestPrompts),
             STRUCTURE_TEST : Opt(Scripts), model : Opt(Models) ]

\* What the generation oracle may answer.
GenReplies == { <<"o", "k">>,
                <<"}", "a", "{", "]", "[">>,
                <<"{", "[", "1", "]">>,
                <<"x", "{", "{", "a", "}", "}">> }

\* What the comparison oracle may answer.
TestReplies == { <<"t", "r", "u", "e">>, <<"T", "r", "u", "E">>,
                 <<"T", "R", "U", "E">>, <<"t", "r", "u", "e", ".">>,
                 <<" ", "t", "r", "u", "e", " ">>, <<"f", "a", "l", "s", "e">>,
                 <<>> }

\* How client.chat().create(req).await may end: a transport error, a
\* response with no choice, a first choice with no content, or content.
OracleFailures == {"transport", "no_choice", "no_content"}

(***************************************************************************)
(* The scripted predicate (mlua)                                           *)
(***************************************************************************)

\* Lua::new(): an interpreter whose globals hold nothing of the script.
LuaNew == [test |-> "nil", count |-> 0]

\* lua.load(structure_test).exec(): runs the chunk, which sets globals.
\* Result<(), mlua::Error> with the interpreter afterwards.
LuaExec(lua, structure_test) ==
    CASE structure_test = "load_error" ->
             [ok |-> FALSE, lua |-> lua, err |-> "syntax error"]
      [] structure_test = "no_test" ->
             [ok |-> TRUE, lua |-> lua, err |-> ""]
      [] structure_test = "stateful" ->
             [ok |-> TRUE, err |-> "",
              lua |-> [test |-> "stateful", count |-> lua.count + 1]]
      [] OTHER ->
             [ok |-> TRUE, err |-> "",
              lua |-> [lua EXCEPT !.test = structure_test]]

\* globals.get::<Function>("test"): an error when the global is not a function.
LuaGetTest(lua) ==
    IF lua.test = "nil"
    THEN [ok |-> FALSE, err |-> "error converting Lua nil to function"]
    ELSE [ok |-> TRUE, err |-> ""]

\* test_func.call::<bool>(jzml): Ok(result) or Err(e) when the callable raises.
LuaCallTest(lua, jzml) ==
    CASE lua.test = "accept"      -> [ok |-> TRUE, result |-> TRUE, err |-> ""]
      [] lua.test = "reject"      -> [ok |-> TRUE, result |-> FALSE, err |-> ""]
      [] lua.test = "object_only" -> [ok |-> TRUE, result |-> (jzml[1] = "{"), err |-> ""]
      [] lua.test = "stateful"    -> [ok |-> TRUE, result |-> (lua.count = 1), err |-> ""]
      [] OTHER -> [ok |-> FALSE, result |-> FALSE, err |-> "runtime error: boom"]

(***************************************************************************)
(* process: the values it builds                                           *)
(***************************************************************************)

\* enum ErrorLocation and its Display.
ErrorLocation == {"MatchInput", "MatchJson", "Parse", "Test"}

\* Variant of ErrorLocation_fmt whose match has no text for Test.
ErrorLocation_fmt_test_blank(location) ==
    CASE location = "MatchInput" -> "matchinput"
      [] location = "MatchJson"  -> "matchjson"
      [] location = "Parse"      -> "parse"
      [] OTHER                   -> ""

ErrorLocation_fmt(location) ==
    CASE location = "MatchInput" -> "matchinput"
      [] location = "MatchJson"  -> "matchjson"
      [] location = "Parse"      -> "parse"
      [] location = "Test"       -> "test"

\* struct TestPass and struct TestError.
TestPass(content) == [content |-> content]
TestError(content, location, err) ==
    [content |-> content, location |-> location, err |-> err]

\* The generation request of lines 64-71.
GenRequest(model, gen_prompt, input) ==
    [model |-> model, content |-> replace(gen_prompt, PhDescription, input)]

\* Variant of TestRequest that puts the payload where the baseline belongs
\* and the baseline where the payload belongs.
TestRequest_swapped(model, test_prompt, input, expected_output, jzml) ==
    [model |-> model,
     content |-> replace(replace(replace(test_prompt, PhDescription, input),
                                 PhBaseline, jzml),
                         PhInput, expected_output)]

\* The comparison request of lines 84-94.
TestRequest(model, test_prompt, input, expected_output, jzml) ==
    [model |-> model,
     content |-> replace(replace(replace(test_prompt, PhDescription, input),
                                 PhBaseline, expected_output),
                         PhInput, jzml)]

\* s without its leading and trailing spaces (str::trim on the model's text).
RECURSIVE Trim(_)
Trim(s) ==
    IF s = <<>> THEN s
    ELSE IF Head(s) = " " THEN Trim(Tail(s))
    ELSE IF s[Len(s)] = " " THEN Trim(SubSeq(s, 1, Len(s) - 1))
    ELSE s

\* Variant of Verdict that trims the reply before comparing it.
Verdict_trimmed(test_message) ==
    to_lowercase(Trim(test_message)) = <<"t", "r", "u", "e">>

\* The comparison verdict of line 97.
TrueToken == <<"t", "r", "u", "e">>
Verdict(test_message) == to_lowercase(test_message) = TrueToken

\* The result of process once the comparison reply is known (lines 97-101).
TestOutcome(message, test_message) ==
    IF Verdict(test_message)
    THEN [ok |-> TRUE, pass |-> TestPass(message)]
    ELSE [ok |-> FALSE, fail |-> TestError(message, "Test", None)]

\* Variant of ParseOutcome that reports the failure at the next stage.
ParseOutcome_as_test(message, called) ==
    IF called.ok
    THEN [content |-> message, location |-> "Test", err |-> <<>>]
    ELSE [content |-> message, location |-> "Test", err |-> <<called.err>>]

\* Variant of ParseOutcome that drops the raised error's message.
ParseOutcome_no_diagnostic(message, called) ==
    [content |-> message, location |-> "Parse", err |-> <<>>]

\* The result of process when the test callable did not return true
\* (lines 102-106): called.ok is FALSE when it raised.
ParseOutcome(message, called) ==
    IF called.ok
    THEN TestError(message, "Parse", None)
    ELSE TestError(message, "Parse", Some(called.err))

(***************************************************************************)
(* main: the report                                                        *)
(***************************************************************************)

\* The header row of line 17.
Header == <<"Name", "Status", "Input", "Result", "Error Location", "Error">>

\* e.err.unwrap_or("".to_string())
unwrap_or(opt, default) == IF opt = None THEN default ELSE opt[1]

\* OsStr::to_str(): None when the name is not valid UTF-8.
to_str(os_name) == IF os_name.utf8 THEN Some(os_name.text) ELSE None

\* Line 19: path.file_name().to_str().unwrap_or("").
file_name(os_name) == unwrap_or(to_str(os_name), "")

\* The row of line 24.
PassedRow(name, contents, p) ==
    [Name |-> name, Status |-> "Passed", Input |-> contents,
     Result |-> p.content, ErrorLocation |-> "", Error |-> ""]

\* Variant of FailedRow that writes the document into the Result column.
FailedRow_document_as_result(name, contents, e) ==
    [Name |-> name, Status |-> "Failed", Input |-> contents,
     Result |-> contents, ErrorLocation |-> ErrorLocation_fmt(e.location),
     Error |-> unwrap_or(e.err, "")]

\* The row of line 33.
FailedRow(name, contents, e) ==
    [Name |-> name, Status |-> "Failed", Input |-> contents,
     Result |-> e.content, ErrorLocation |-> ErrorLocation_fmt(e.location),
     Error |-> unwrap_or(e.err, "")]

(***************************************************************************)
(* State                                                                   *)
(***************************************************************************)

VARIABLES
    env,        \* the settings of the run, as process reads them
    files,      \* the file names of the corpus, in the order read_dir yields them
    idx,        \* position in files of the next test case of the loop of line 18
    run,        \* "running", "finished" (main returned Ok(())) or "aborted"
    cause,      \* why the run was aborted ("" otherwise)
    pc,         \* where the current call of process stands: "idle" (no call
                \* in progress), "gen" (awaiting line 72) or "test" (line 95)
    cur,        \* name, contents and the locals of process in the latest
                \* iteration of the loop of line 18
    lua,        \* the interpreter of the latest call of process, None if none
    records,    \* the rows written to the report after the header
    calls,      \* the oracle requests issued by the latest call of process
    checks      \* the checks the latest call of process evaluated, in order

vars == <<env, files, idx, run, cause, pc, cur, lua, records, calls, checks>>

NoText == <<>>

\* The locals before process has assigned any.
NoCase == [name |-> "", contents |-> NoText, input |-> NoText,
           expected_output |-> NoText, test_prompt |-> NoText,
           structure_test |-> "", model |-> "", message |-> NoText,
           jzml |-> NoText, test_message |-> NoText]

Check(check, ok) == [check |-> check, ok |-> ok]

Call(site, req) == [site |-> site, model |-> req.model, content |-> req.content]

\* main after line 17: the report is open and holds the header only.
Init ==
    /\ env \in Configs
    /\ files \in UNION { FileNames(n) : n \in 0..MaxFiles }
    /\ idx = 1
    /\ run = "running"
    /\ cause = ""
    /\ pc = "idle"
    /\ cur = NoCase
    /\ lua = None
    /\ records = <<>>
    /\ calls = <<>>
    /\ checks = <<>>

\* The loop of line 18 is about to take the next file.
AtNextFile == run = "running" /\ pc = "idle" /\ idx <= Len(files)

\* `?` on an Err, or a panic: main ends without processing further files.
Abort(why) ==
    /\ run' = "aborted"
    /\ cause' = why
    /\ pc' = "idle"
    /\ UNCHANGED <<env, files, idx, records>>

\* Variant of Record that puts the new row in front of the earlier ones.
Record_in_front(row) ==
    /\ records' = <<row>> \o records
    /\ idx' = idx + 1
    /\ pc' = "idle"
    /\ UNCHANGED <<env, files, run, cause>>

\* Lines 22-34: the row of the result of process is written and the loop
\* goes on with the next file.
Record(row) ==
    /\ records' = Append(records, row)
    /\ idx' = idx + 1
    /\ pc' = "idle"
    /\ UNCHANGED <<env, files, run, cause>>

(***************************************************************************)
(* Actions: from the loop head to the first await                          *)
(***************************************************************************)

\* Line 18: the enumeration yields an I/O error for the next entry, or the
\* type of the entry cannot be told: p.unwrap() or file_type().unwrap()
\* panics when the loop asks for the next file.
EnumerateFail ==
    /\ run = "running" /\ pc = "idle"
    /\ cur' = NoCase
    /\ lua' = None /\ calls' = <<>> /\ checks' = <<>>
    /\ Abort("panic: directory entry")

\* Line 20: the file cannot be read as text.
ReadFileFail ==
    /\ AtNextFile
    /\ cur' = [NoCase EXCEPT !.name = file_name(files[idx])]
    /\ lua' = None /\ calls' = <<>> /\ checks' = <<>>
    /\ Abort("Err: read file")

\* Lines 45-58: a marker pair is missing.
MatchInputFail ==
    /\ AtNextFile
    /\ \E contents \in Docs :
        /\ input_r(contents) = None \/ output_r(contents) = None
        /\ cur' = [NoCase EXCEPT !.name = file_name(files[idx]), !.contents = contents]
        /\ Record(FailedRow(file_name(files[idx]), contents,
                            TestError(contents, "MatchInput", None)))
    /\ lua' = None /\ calls' = <<>>
    /\ checks' = <<Check("MatchInput", FALSE)>>

\* Variant of ConfigFail in which the settings are read before the markers
\* are looked for.
ConfigFail_before_markers ==
    /\ AtNextFile
    /\ \E k \in DOMAIN env : env[k] = None
    /\ \E contents \in Docs :
        cur' = [NoCase EXCEPT !.name = file_name(files[idx]), !.contents = contents]
    /\ lua' = None /\ calls' = <<>>
    /\ checks' = <<>>
    /\ Abort("Err: configuration")

\* Lines 59-62: a setting is missing or its file unreadable.
ConfigFail ==
    /\ AtNextFile
    /\ \E k \in DOMAIN env : env[k] = None
    /\ \E contents \in Docs :
        /\ input_r(contents) # None /\ output_r(contents) # None
        /\ cur' = [NoCase EXCEPT !.name = file_name(files[idx]), !.contents = contents,
                                 !.input = input_r(contents)[1],
                                 !.expected_output = output_r(contents)[1]]
    /\ lua' = None /\ calls' = <<>>
    /\ checks' = <<Check("MatchInput", TRUE)>>
    /\ Abort("Err: configuration")

\* Lines 45-72: the generation request is sent.
Generate ==
    /\ AtNextFile
    /\ \A k \in DOMAIN env : env[k] # None
    /\ \E contents \in Docs :
        /\ input_r(contents) # None /\ output_r(contents) # None
        /\ cur' = [NoCase EXCEPT !.name = file_name(files[idx]), !.contents = contents,
                                 !.input = input_r(contents)[1],
                                 !.expected_output = output_r(contents)[1],
                                 !.test_prompt = env.TEST_PROMPT[1],
                                 !.structure_test = env.STRUCTURE_TEST[1],
                                 !.model = env.model[1]]
        /\ calls' = << Call("gen", GenRequest(env.model[1], env.GEN_PROMPT[1],
                                              input_r(contents)[1])) >>
    /\ lua' = None
    /\ checks' = <<Check("MatchInput", TRUE)>>
    /\ pc' = "gen"
    /\ UNCHANGED <<env, files, idx, run, cause, records>>

(***************************************************************************)
(* Actions: the generation call completes (line 72 onwards)                *)
(***************************************************************************)

AwaitingGen == run = "running" /\ pc = "gen"

\* What ends main when an oracle call does not yield content: `?` returns
\* the transport error; unwrap() panics on a missing choice or content.
OracleFailCause(f) ==
    IF f = "transport" THEN "Err: oracle transport"
    ELSE "panic: unwrap on None (" \o f \o ")"

\* Lines 72-73: the generation call yields no content.
GenOracleFail ==
    /\ AwaitingGen
    /\ \E f \in OracleFailures : Abort(OracleFailCause(f))
    /\ UNCHANGED <<cur, lua, calls, checks>>

\* Lines 74-75, 108-110: no payload in the generated text.
MatchJsonFail ==
    /\ AwaitingGen
    /\ \E message \in GenReplies :
        /\ r_find(message) = None
        /\ cur' = [cur EXCEPT !.message = message]
        /\ Record(FailedRow(cur.name, cur.contents,
                            TestError(message, "MatchJson", None)))
    /\ checks' = Append(checks, Check("MatchJson", FALSE))
    /\ UNCHANGED <<lua, calls>>

\* Lines 77-79: the script does not load; `?` returns the error.
ScriptLoadFail ==
    /\ AwaitingGen
    /\ \E message \in GenReplies :
        /\ r_find(message) # None
        /\ ~LuaExec(LuaNew, cur.structure_test).ok
        /\ cur' = [cur EXCEPT !.message = message, !.jzml = r_find(message)[1]]
        /\ lua' = Some(LuaExec(LuaNew, cur.structure_test).lua)
    /\ checks' = Append(checks, Check("MatchJson", TRUE))
    /\ Abort("Err: script load")
    /\ UNCHANGED calls

\* Line 80: the script defines no function test; `?` returns the error.
TestLookupFail ==
    /\ AwaitingGen
    /\ \E message \in GenReplies :
        /\ r_find(message) # None
        /\ LuaExec(LuaNew, cur.structure_test).ok
        /\ ~LuaGetTest(LuaExec(LuaNew, cur.structure_test).lua).ok
        /\ cur' = [cur EXCEPT !.message = message, !.jzml = r_find(message)[1]]
        /\ lua' = Some(LuaExec(LuaNew, cur.structure_test).lua)
    /\ checks' = Append(checks, Check("MatchJson", TRUE))
    /\ Abort("Err: script test lookup")
    /\ UNCHANGED calls

\* The test callable is reached and called on the payload of message.
Validated(message) ==
    /\ r_find(message) # None
    /\ LuaExec(LuaNew, cur.structure_test).ok
    /\ LuaGetTest(LuaExec(LuaNew, cur.structure_test).lua).ok

\* Variant of Validation in which the result of the callable is not looked at.
Validation_ignored(message) == [ok |-> TRUE, result |-> TRUE, err |-> ""]

\* Variant of Validation in which the interpreter is kept from one test case
\* to the next: the globals hold what the earlier evaluations wrote.
Validation_shared_interpreter(message) ==
    LuaCallTest(LuaExec([LuaNew EXCEPT !.count = Len(records)],
                        cur.structure_test).lua,
                r_find(message)[1])

Validation(message) ==
    LuaCallTest(LuaExec(LuaNew, cur.structure_test).lua, r_find(message)[1])

\* Lines 81-83, 102-106: the test callable returns false or raises.
ParseFail ==
    /\ AwaitingGen
    /\ \E message \in GenReplies :
        /\ Validated(message)
        /\ ~(Validation(message).ok /\ Validation(message).result)
        /\ cur' = [cur EXCEPT !.message = message, !.jzml = r_find(message)[1]]
        /\ lua' = Some(LuaExec(LuaNew, cur.structure_test).lua)
        /\ Record(FailedRow(cur.name, cur.contents,
                            ParseOutcome(message, Validation(message))))
    /\ checks' = checks \o <<Check("MatchJson", TRUE), Check("Parse", FALSE)>>
    /\ UNCHANGED calls

\* Lines 81-95: the test callable returns true; the comparison request is sent.
Compare ==
    /\ AwaitingGen
    /\ \E message \in GenReplies :
        /\ Validated(message)
        /\ Validation(message).ok /\ Validation(message).result
        /\ cur' = [cur EXCEPT !.message = message, !.jzml = r_find(message)[1]]
        /\ lua' = Some(LuaExec(LuaNew, cur.structure_test).lua)
        /\ calls' = Append(calls,
                           Call("test", TestRequest(cur.model, cur.test_prompt,
                                                    cur.input, cur.expected_output,
                                                    r_find(message)[1])))
    /\ checks' = checks \o <<Check("MatchJson", TRUE), Check("Parse", TRUE)>>
    /\ pc' = "test"
    /\ UNCHANGED <<env, files, idx, run, cause, records>>

(***************************************************************************)
(* Actions: the comparison call completes (line 95 onwards)                *)
(***************************************************************************)

AwaitingTest == run = "running" /\ pc = "test"

\* Variant of TestOracleFail that sends the comparison request again.
TestOracleFail_retry ==
    /\ AwaitingTest
    /\ calls' = Append(calls, calls[Len(calls)])
    /\ UNCHANGED <<env, files, idx, run, cause, pc, cur, lua, records, checks>>

\* Lines 95-96: the comparison call yields no content.
TestOracleFail ==
    /\ AwaitingTest
    /\ \E f \in OracleFailures : Abort(OracleFailCause(f))
    /\ UNCHANGED <<cur, lua, calls, checks>>

\* The row main writes for the result of lines 97-101.
OutcomeRow(name, contents, outcome) ==
    IF outcome.ok THEN PassedRow(name, contents, outcome.pass)
    ELSE FailedRow(name, contents, outcome.fail)

\* Lines 96-101: the comparison reply decides between Passed and Test.
TestReply ==
    /\ AwaitingTest
    /\ \E test_message \in TestReplies :
        /\ cur' = [cur EXCEPT !.test_message = test_message]
        /\ Record(OutcomeRow(cur.name, cur.contents,
                             TestOutcome(cur.message, test_message)))
        /\ checks' = Append(checks, Check("Test", Verdict(test_message)))
    /\ UNCHANGED <<lua, calls>>

\* Lines 36-41: every file was taken; the report is flushed, main returns Ok.
Finish ==
    /\ run = "running" /\ pc = "idle" /\ idx > Len(files)
    /\ run' = "finished"
    /\ UNCHANGED <<env, files, idx, cause, pc, cur, lua, records, calls, checks>>

Next ==
    \/ EnumerateFail
    \/ ReadFileFail
    \/ MatchInputFail
    \/ ConfigFail
    \/ Generate
    \/ GenOracleFail
    \/ MatchJsonFail
    \/ ScriptLoadFail
    \/ TestLookupFail
    \/ ParseFail
    \/ Compare
    \/ TestOracleFail
    \/ TestReply
    \/ Finish

Spec == Init /\ [][Next]_vars

(***************************************************************************)
(* Properties                                                              *)
(*                                                                         *)
(* After a row is written, and until the loop takes the next file, cur,    *)
(* lua, calls and checks describe the test case of the last row.           *)
(***************************************************************************)

\* The latest call of process returned a result and main wrote its row.
CaseRecorded == run # "aborted" /\ pc = "idle" /\ records # <<>>

LastRecord == records[Len(records)]

\* The latest test case issued no comparison request.
NoTestCall == \A i \in DOMAIN calls : calls[i].site # "test"

\* Some open tag of the document is followed by its closing tag.
RegionPresent(open, close, doc) ==
    \E i \in 1..Len(doc) :
        /\ OccursAt(doc, open, i)
        /\ \E j \in (i + Len(open))..Len(doc) : OccursAt(doc, close, j)

MarkersPresent(doc) ==
    /\ RegionPresent(InputOpen, InputClose, doc)
    /\ RegionPresent(OutputOpen, OutputClose, doc)

\* The text holds a "{" with a "}" after it, or a "[" with a "]" after it.
HasShape(text) ==
    \E p, q \in 1..Len(text) :
        /\ p < q
        /\ \/ text[p] = "{" /\ text[q] = "}"
           \/ text[p] = "[" /\ text[q] = "]"

\* What the scripts of the model do with a payload, read off their sources:
\* in a fresh interpreter the stateful script counts to 1 and accepts.
ScriptAccepts(script, payload) ==
    \/ script \in {"accept", "stateful"}
    \/ script = "object_only" /\ Head(payload) = "{"

ScriptReturnsFalse(script, payload) ==
    \/ script = "reject"
    \/ script = "object_only" /\ Head(payload) # "{"

ScriptRaises(script) == script = "raise"

\* The latest test case extracted a payload from the generation reply.
PayloadExtracted == cur.jzml # NoText

\* C1: a document that lacks the <input> region or the <output> region gets
\* a Failed row at matchinput under its file name, and no oracle request
\* (generation or comparison) is issued for it.
C1_MissingMarkersFailAtMatchInput ==
    (cur.contents \in Docs /\ ~MarkersPresent(cur.contents)) =>
        /\ calls = <<>>
        /\ CaseRecorded
        /\ LastRecord.Name = cur.name
        /\ LastRecord.Status = "Failed"
        /\ LastRecord.ErrorLocation = "matchinput"

C1_Witness ==
    /\ CaseRecorded
    /\ cur.contents = DocNoOutput
    /\ LastRecord.ErrorLocation = "matchinput"
    /\ Len(records) = 2

\* C2: an oracle call that fails (transport error, no choice, no content)
\* does not abort the run: the test case gets a Failed row with a diagnostic
\* and the loop goes on.
C2_OracleFailureIsRecorded ==
    (cause \in { OracleFailCause(f) : f \in OracleFailures }) =>
        /\ run # "aborted"
        /\ records # <<>>
        /\ LastRecord.Name = cur.name
        /\ LastRecord.Status = "Failed"
        /\ LastRecord.Error # ""

\* C3: once the run has ended, otherwise than on an unreadable file or a
\* missing setting, the report holds one row per file of the corpus, each
\* under the name of its file.
C3_OneRecordPerFile ==
    (run # "running" /\ cause \notin {"Err: read file", "Err: configuration"}) =>
        /\ Len(records) = Len(files)
        /\ \A i \in DOMAIN records : records[i].Name = files[i].text

\* C4: a generation reply that holds no {...} or [...] substring gets a
\* Failed row at the payload-match location (matchjson); no interpreter is
\* created and no comparison request is issued.
C4_NoPayloadFailsAtMatchJson ==
    (cur.message \in GenReplies /\ ~HasShape(cur.message)) =>
        /\ lua = None
        /\ NoTestCall
        /\ CaseRecorded
        /\ LastRecord.Name = cur.name
        /\ LastRecord.Status = "Failed"
        /\ LastRecord.ErrorLocation = "matchjson"

C4_Witness ==
    /\ CaseRecorded
    /\ cur.message = <<"}", "a", "{", "]", "[">>
    /\ LastRecord.ErrorLocation = "matchjson"

\* C5: a payload for which the test callable returns false or raises gets a
\* Failed row at parse and no comparison request; and a comparison request
\* is issued only for a payload the test callable accepted.
C5_RejectedPayloadFailsAtParse ==
    /\ ( /\ PayloadExtracted
         /\ \/ ScriptReturnsFalse(cur.structure_test, cur.jzml)
            \/ ScriptRaises(cur.structure_test) ) =>
            /\ NoTestCall
            /\ CaseRecorded
            /\ LastRecord.Name = cur.name
            /\ LastRecord.Status = "Failed"
            /\ LastRecord.ErrorLocation = "parse"
    /\ ~NoTestCall =>
            /\ PayloadExtracted
            /\ ScriptAccepts(cur.structure_test, cur.jzml)

C5_Witness ==
    /\ CaseRecorded
    /\ cur.structure_test = "object_only"
    /\ cur.jzml = <<"[", "1", "]">>
    /\ LastRecord.ErrorLocation = "parse"

\* The comparison prompt with the three values put in the places the
\* template of the run gives them.
ExpectedTestPrompt(template, description, baseline, payload) ==
    IF template = TestPromptFull
    THEN description \o <<"|">> \o baseline \o <<"|">> \o payload
    ELSE payload \o <<"=">> \o baseline

TestCalls == { i \in DOMAIN calls : calls[i].site = "test" }

\* C6: for a payload the test callable accepted, exactly one comparison
\* request is issued, after the generation request, with the model of the
\* generation request and with the comparison template filled with the
\* description, the baseline and the payload.
C6_AcceptedPayloadComparedOnce ==
    (PayloadExtracted /\ ScriptAccepts(cur.structure_test, cur.jzml)) =>
        /\ Cardinality(TestCalls) = 1
        /\ Len(calls) = 2
        /\ calls[1].site = "gen" /\ calls[2].site = "test"
        /\ calls[2].model = calls[1].model
        /\ calls[2].model = env.model[1]
        /\ calls[2].content =
               ExpectedTestPrompt(env.TEST_PROMPT[1], cur.input,
                                  cur.expected_output, cur.jzml)

C6_Witness ==
    /\ pc = "test"
    /\ cur.structure_test = "object_only"
    /\ calls[2].model = "m2"
    /\ calls[2].content = <<"a", "\n", "c", "|", "b", "|", "{", "{", "a", "}">>

\* The four checks in their order, with the location each reports.
CheckOrder == <<"MatchInput", "MatchJson", "Parse", "Test">>

\* The reply is the token true in some mix of upper and lower case.
TrueVariants ==
    { <<c1, c2, c3, c4>> : c1 \in {"t", "T"}, c2 \in {"r", "R"},
                           c3 \in {"u", "U"}, c4 \in {"e", "E"} }

\* The location the precedence MatchInput, MatchJson, Parse, Test gives the
\* latest recorded case from its document, generation reply, script and
\* comparison reply; "" when all four checks succeed.
ExpectedLocation ==
    IF ~MarkersPresent(cur.contents) THEN "matchinput"
    ELSE IF ~HasShape(cur.message) THEN "matchjson"
    ELSE IF ~ScriptAccepts(cur.structure_test, cur.jzml) THEN "parse"
    ELSE IF cur.test_message \notin TrueVariants THEN "test"
    ELSE ""

\* C7: the checks are evaluated in the order MatchInput, MatchJson, Parse,
\* Test and none is evaluated after one that failed; the row of a test case
\* is Failed at the first check that fails and Passed only when all four
\* succeeded.
C7_FirstFailingCheckWins ==
    /\ Len(checks) <= Len(CheckOrder)
    /\ \A i \in DOMAIN checks : checks[i].check = CheckOrder[i]
    /\ \A i \in DOMAIN checks : i < Len(checks) => checks[i].ok
    /\ CaseRecorded =>
        LET expected == ExpectedLocation
        IN  /\ LastRecord.ErrorLocation = expected
            /\ LastRecord.Status = IF expected = "" THEN "Passed" ELSE "Failed"
            /\ (LastRecord.Status = "Passed") =
                   (Len(checks) = 4 /\ \A i \in DOMAIN checks : checks[i].ok)
            /\ LastRecord.Status = "Failed" =>
                   /\ ~checks[Len(checks)].ok
                   /\ LastRecord.ErrorLocation =
                          ErrorLocation_fmt(checks[Len(checks)].check)
            /\ expected = "matchinput" => calls = <<>>
            /\ expected \in {"matchinput", "matchjson"} => lua = None
            /\ expected \in {"matchinput", "matchjson", "parse"} => NoTestCall

C7_Witness ==
    /\ CaseRecorded
    /\ Len(records) = 2
    /\ records[1].ErrorLocation = "parse"
    /\ records[2].Status = "Passed"
    /\ Len(checks) = 4

\* The comparison reply of the latest test case has been received.
TestReplied == Len(checks) = 4

\* C8: the comparison reply counts as true exactly when it is the token
\* true in some mix of cases, untrimmed; any other reply gets a Failed row
\* at test with no diagnostic, and the run is not aborted.
C8_VerdictIsCaseFoldedEquality ==
    TestReplied =>
        /\ CaseRecorded
        /\ LastRecord.Name = cur.name
        /\ IF cur.test_message \in TrueVariants
           THEN LastRecord.Status = "Passed"
           ELSE /\ LastRecord.Status = "Failed"
                /\ LastRecord.ErrorLocation = "test"
                /\ LastRecord.Error = ""

C8_Witness ==
    /\ TestReplied
    /\ cur.test_message = <<" ", "t", "r", "u", "e", " ">>
    /\ LastRecord.ErrorLocation = "test"

\* The script of the run fails to load, defines no test, or raises when called.
ScriptErrors(script) == script \in {"load_error", "no_test", "raise"}

\* C9: an error raised by the script, while it is loaded, while test is
\* looked up or while test is called, does not abort the run: the test case
\* gets a Failed row at parse with the error text as diagnostic.
C9_ScriptErrorIsRecorded ==
    (PayloadExtracted /\ ScriptErrors(cur.structure_test)) =>
        /\ CaseRecorded
        /\ LastRecord.Name = cur.name
        /\ LastRecord.Status = "Failed"
        /\ LastRecord.ErrorLocation = "parse"
        /\ LastRecord.Error # ""

\* C10: a row Failed at parse has an empty error detail when the test
\* callable returned false, and the raised error's message when it raised.
C10_ParseDiagnosticOnlyWhenRaised ==
    (CaseRecorded /\ LastRecord.ErrorLocation = "parse") =>
        /\ ScriptReturnsFalse(cur.structure_test, cur.jzml) =>
               LastRecord.Error = ""
        /\ ScriptRaises(cur.structure_test) =>
               LastRecord.Error = "runtime error: boom"
        /\ \/ ScriptReturnsFalse(cur.structure_test, cur.jzml)
           \/ ScriptRaises(cur.structure_test)

C10_Witness ==
    /\ CaseRecorded
    /\ LastRecord.ErrorLocation = "parse"
    /\ cur.structure_test = "raise"
    /\ LastRecord.Error # ""

\* C11: the Result column of a row is the document when the row is Failed at
\* matchinput, and the whole generation reply (not the payload cut out of
\* it) when the row is Passed or Failed at matchjson, parse or test.
C11_ResultContentFollowsOutcome ==
    CaseRecorded =>
        /\ LastRecord.ErrorLocation \in {"", "matchinput", "matchjson", "parse", "test"}
        /\ LastRecord.ErrorLocation = "matchinput" =>
               /\ LastRecord.Result = cur.contents
               /\ cur.message = NoText
        /\ LastRecord.ErrorLocation # "matchinput" =>
               /\ cur.message \in GenReplies
               /\ LastRecord.Result = cur.message

C11_Witness ==
    /\ CaseRecorded
    /\ LastRecord.Status = "Passed"
    /\ cur.jzml = <<"{", "{", "a", "}">>
    /\ LastRecord.Result = <<"x", "{", "{", "a", "}", "}">>

\* C12: in every row of the report the Error Location column is filled
\* exactly when the Status is Failed, and a Passed row has an empty Error
\* Location and an empty Error.
C12_LocationPresentIffFailed ==
    \A i \in DOMAIN records :
        /\ records[i].Status \in {"Passed", "Failed"}
        /\ (records[i].ErrorLocation # "") = (records[i].Status = "Failed")
        /\ records[i].Status = "Passed" =>
               records[i].ErrorLocation = "" /\ records[i].Error = ""

C12_Witness ==
    /\ Len(records) = 2
    /\ records[1].Status = "Passed"
    /\ records[2].Status = "Failed"
    /\ records[2].ErrorLocation = "test"

GenCalls == { i \in DOMAIN calls : calls[i].site = "gen" }

\* C13: for one test case at most one generation request and at most one
\* comparison request are issued, also when a call has failed, and each of
\* the four checks is evaluated at most once: one pass, no retry.
C13_NoRetry ==
    /\ Cardinality(GenCalls) <= 1
    /\ Cardinality(TestCalls) <= 1
    /\ Len(calls) = Cardinality(GenCalls) + Cardinality(TestCalls)
    /\ \A i, j \in DOMAIN checks : checks[i].check = checks[j].check => i = j
    /\ pc = "gen" => Len(calls) = 1
    /\ pc = "test" => Len(calls) = 2
    /\ (cause \in { OracleFailCause(f) : f \in OracleFailures }) =>
           /\ run = "aborted"
           /\ Len(calls) \in {1, 2}

C13_Witness ==
    /\ run = "aborted"
    /\ cause = OracleFailCause("transport")
    /\ Len(calls) = 2
    /\ Len(records) = 1

(***************************************************************************)
(* The comparison prompt alone (lines 88-91)                               *)
(*                                                                         *)
(* SubstSpec applies the three replace calls of process to templates and   *)
(* values that may themselves hold the text of a placeholder.              *)
(***************************************************************************)

\* The texts the description and the baseline are drawn from: plain text
\* and the text of each placeholder.
SubstValues == { <<"a">>, PhDescription, PhBaseline, PhInput }

\* The test documents of SubstSpec: both regions present.
SubstDoc(d, b) == InputOpen \o d \o InputClose \o OutputOpen \o b \o OutputClose

\* The generation replies of SubstSpec: each holds a payload the pattern of
\* line 74 matches, around plain text or the text of a placeholder.
SubstReplies == { <<"{">> \o v \o <<"}">> : v \in SubstValues }

\* process at line 72: the markers were found, the settings read and the
\* generation request sent, as Generate leaves it.
SubstInit ==
    /\ \E t \in TestPrompts, g \in GenPrompts, d \in SubstValues, b \in SubstValues :
        /\ env = [GEN_PROMPT |-> Some(g), TEST_PROMPT |-> Some(t),
                  STRUCTURE_TEST |-> Some("accept"), model |-> Some("m1")]
        /\ cur = [NoCase EXCEPT !.name = file_name(Utf8Name(1)),
                                !.contents = SubstDoc(d, b),
                                !.input = input_r(SubstDoc(d, b))[1],
                                !.expected_output = output_r(SubstDoc(d, b))[1],
                                !.test_prompt = t,
                                !.structure_test = "accept",
                                !.model = "m1"]
        /\ calls = << Call("gen", GenRequest("m1", g, input_r(SubstDoc(d, b))[1])) >>
    /\ files = << Utf8Name(1) >>
    /\ idx = 1
    /\ run = "running"
    /\ cause = ""
    /\ pc = "gen"
    /\ lua = None
    /\ records = <<>>
    /\ checks = <<Check("MatchInput", TRUE)>>

\* Lines 73-95: the generation reply holds a payload the script accepts;
\* the comparison request is built from the locals and sent (as Compare).
SubstApply ==
    /\ AwaitingGen
    /\ \E message \in SubstReplies :
        /\ Validated(message)
        /\ Validation(message).ok /\ Validation(message).result
        /\ cur' = [cur EXCEPT !.message = message, !.jzml = r_find(message)[1]]
        /\ lua' = Some(LuaExec(LuaNew, cur.structure_test).lua)
        /\ calls' = Append(calls,
                           Call("test", TestRequest(cur.model, cur.test_prompt,
                                                    cur.input, cur.expected_output,
                                                    r_find(message)[1])))
    /\ checks' = checks \o <<Check("MatchJson", TRUE), Check("Parse", TRUE)>>
    /\ pc' = "test"
    /\ UNCHANGED <<env, files, idx, run, cause, records>>

SubstSpec == SubstInit /\ [][SubstApply]_vars

\* The placeholder and the value of each of the three fields.
SubstFields == {"description", "baseline", "input"}

Placeholder(field) ==
    CASE field = "description" -> PhDescription
      [] field = "baseline"    -> PhBaseline
      [] field = "input"       -> PhInput

FieldValue(field) ==
    CASE field = "description" -> cur.input
      [] field = "baseline"    -> cur.expected_output
      [] field = "input"       -> cur.jzml

\* The orders in which the three placeholders can be substituted.
SubstOrders ==
    { o \in [1..3 -> SubstFields] : \A i, j \in 1..3 : o[i] = o[j] => i = j }

\* The template filled by substituting the placeholders one after the other
\* in the given order.
SubstituteInOrder(template, order) ==
    replace(replace(replace(template, Placeholder(order[1]), FieldValue(order[1])),
                    Placeholder(order[2]), FieldValue(order[2])),
            Placeholder(order[3]), FieldValue(order[3]))

\* The template with every placeholder that stands in it replaced by its
\* value in one pass, the values being inserted as they are.
RECURSIVE SubstituteVerbatim(_)
SubstituteVerbatim(s) ==
    IF s = <<>> THEN s
    ELSE IF \E f \in SubstFields : OccursAt(s, Placeholder(f), 1)
         THEN LET f == CHOOSE g \in SubstFields : OccursAt(s, Placeholder(g), 1)
              IN  FieldValue(f) \o SubstituteVerbatim(Drop(s, Len(Placeholder(f))))
         ELSE <<Head(s)>> \o SubstituteVerbatim(Tail(s))

\* C14: the comparison prompt does not depend on the order in which the
\* three placeholders are substituted: it is the template with the values
\* inserted verbatim, also when a value holds the text of a placeholder.
C14_SubstitutionOrderIndependent ==
    pc = "test" =>
        /\ \A o \in SubstOrders :
               calls[Len(calls)].content = SubstituteInOrder(cur.test_prompt, o)
        /\ calls[Len(calls)].content = SubstituteVerbatim(cur.test_prompt)

\* C15: test cases are taken one at a time in the order of enumeration:
\* while requests of a test case are in flight every earlier file has its
\* row and no later file has been started, and the rows stand in the report
\* in the order of the files.
C15_StrictlySequential ==
    /\ idx \in 1..(Len(files) + 1)
    /\ Len(records) = idx - 1
    /\ \A i \in DOMAIN records : records[i].Name = file_name(files[i])
    /\ pc # "idle" =>
           /\ calls # <<>>
           /\ idx <= Len(files)
           /\ cur.name = file_name(files[idx])
    /\ (pc = "idle" /\ calls # <<>> /\ run # "aborted") =>
           cur.name = file_name(files[idx - 1])

C15_Witness ==
    /\ pc = "test"
    /\ idx = 2
    /\ Len(records) = 1
    /\ records[1].Status = "Passed"
    /\ cur.name = "t2.txt"

(***************************************************************************)
(* The field extractor alone (lines 45-58)                                 *)
(*                                                                         *)
(* ExtractSpec applies the two marker patterns to every document made of   *)
(* at most MaxDocTokens pieces, each a tag or a text.                      *)
(***************************************************************************)

\* The most pieces a document of ExtractSpec is made of.
MaxDocTokens == 5

DocTokens == {InputOpen, InputClose, OutputOpen, OutputClose, <<"a">>}

RECURSIVE Flatten(_)
Flatten(pieces) ==
    IF pieces = <<>> THEN <<>> ELSE Head(pieces) \o Flatten(Tail(pieces))

TokenDocs ==
    { Flatten(pieces) :
        pieces \in UNION { [1..n -> DocTokens] : n \in 0..MaxDocTokens } }

\* main at the head of the loop of line 18, one file to go, every setting
\* present (as Init).
ExtractInit ==
    /\ \E g \in GenPrompts :
        env = [GEN_PROMPT |-> Some(g), TEST_PROMPT |-> Some(TestPromptFull),
               STRUCTURE_TEST |-> Some("accept"), model |-> Some("m1")]
    /\ files = << Utf8Name(1) >>
    /\ idx = 1
    /\ run = "running"
    /\ cause = ""
    /\ pc = "idle"
    /\ cur = NoCase
    /\ lua = None
    /\ records = <<>>
    /\ calls = <<>>
    /\ checks = <<>>

\* Lines 47-52: the <input> region is missing; process returns and the row
\* is written (as MatchInputFail).
ExtractNoInput ==
    /\ AtNextFile
    /\ \E contents \in TokenDocs :
        /\ input_r(contents) = None
        /\ cur' = [NoCase EXCEPT !.name = file_name(files[idx]),
                                 !.contents = contents]
        /\ Record(FailedRow(file_name(files[idx]), contents,
                            TestError(contents, "MatchInput", None)))
    /\ lua' = None /\ calls' = <<>>
    /\ checks' = <<Check("MatchInput", FALSE)>>

\* Lines 47-58: input is bound, the <output> region is missing; process
\* returns and the row is written (as MatchInputFail).
ExtractNoOutput ==
    /\ AtNextFile
    /\ \E contents \in TokenDocs :
        /\ input_r(contents) # None
        /\ output_r(contents) = None
        /\ cur' = [NoCase EXCEPT !.name = file_name(files[idx]),
                                 !.contents = contents,
                                 !.input = input_r(contents)[1]]
        /\ Record(FailedRow(file_name(files[idx]), contents,
                            TestError(contents, "MatchInput", None)))
    /\ lua' = None /\ calls' = <<>>
    /\ checks' = <<Check("MatchInput", FALSE)>>

\* Lines 47-72: input and expected_output are bound, the settings read and
\* the generation request sent (as Generate).
ExtractBoth ==
    /\ AtNextFile
    /\ \A k \in DOMAIN env : env[k] # None
    /\ \E contents \in TokenDocs :
        /\ input_r(contents) # None /\ output_r(contents) # None
        /\ cur' = [NoCase EXCEPT !.name = file_name(files[idx]),
                                 !.contents = contents,
                                 !.input = input_r(contents)[1],
                                 !.expected_output = output_r(contents)[1],
                                 !.test_prompt = env.TEST_PROMPT[1],
                                 !.structure_test = env.STRUCTURE_TEST[1],
                                 !.model = env.model[1]]
        /\ calls' = << Call("gen", GenRequest(env.model[1], env.GEN_PROMPT[1],
                                              input_r(contents)[1])) >>
    /\ lua' = None
    /\ checks' = <<Check("MatchInput", TRUE)>>
    /\ pc' = "gen"
    /\ UNCHANGED <<env, files, idx, run, cause, records>>

ExtractNext == ExtractNoInput \/ ExtractNoOutput \/ ExtractBoth

ExtractSpec == ExtractInit /\ [][ExtractNext]_vars

\* Where tag first occurs in doc at or after from; 0 when it does not.
FirstOccurrence(doc, tag, from) ==
    IF \E i \in from..Len(doc) : OccursAt(doc, tag, i)
    THEN CHOOSE i \in from..Len(doc) :
             /\ OccursAt(doc, tag, i)
             /\ \A k \in from..(i - 1) : ~OccursAt(doc, tag, k)
    ELSE 0

\* The text between the first opening tag and the first closing tag after it.
Between(doc, open, close) ==
    LET i == FirstOccurrence(doc, open, 1)
        j == FirstOccurrence(doc, close, i + Len(open))
    IN  SubSeq(doc, i + Len(open), j - 1)

\* C16: each of the two regions is the text between the first occurrence of
\* its opening tag and the first occurrence of its closing tag after that,
\* wherever the other region stands; the extraction succeeds exactly when
\* both regions are present.
C16_FirstOpenToFirstClose ==
    checks # <<>> =>
        /\ checks[1].ok = MarkersPresent(cur.contents)
        /\ RegionPresent(InputOpen, InputClose, cur.contents) =>
               cur.input = Between(cur.contents, InputOpen, InputClose)
        /\ checks[1].ok =>
               cur.expected_output = Between(cur.contents, OutputOpen, OutputClose)

C16_Witness ==
    /\ checks # <<>>
    /\ checks[1].ok
    /\ cur.contents = OutputOpen \o InputOpen \o <<"a">> \o InputClose \o OutputClose
    /\ cur.input = <<"a">>
    /\ cur.expected_output = InputOpen \o <<"a">> \o InputClose

(***************************************************************************)
(* The payload extractor alone (lines 74-76, 108-110)                      *)
(*                                                                         *)
(* PayloadSpec applies the payload pattern to every generated text of at   *)
(* most MaxMessageLen characters.                                          *)
(***************************************************************************)

\* The most characters a generated text of PayloadSpec has.
MaxMessageLen == 4

MessageChars == {"{", "}", "[", "]", "a"}

Messages == UNION { [1..n -> MessageChars] : n \in 0..MaxMessageLen }

\* process at line 72: the markers were found, the settings read and the
\* generation request sent, as Generate leaves it.
PayloadInit ==
    /\ \E g \in GenPrompts :
        /\ env = [GEN_PROMPT |-> Some(g), TEST_PROMPT |-> Some(TestPromptFull),
                  STRUCTURE_TEST |-> Some("accept"), model |-> Some("m1")]
        /\ calls = << Call("gen", GenRequest("m1", g, input_r(DocBoth)[1])) >>
    /\ cur = [NoCase EXCEPT !.name = file_name(Utf8Name(1)),
                            !.contents = DocBoth,
                            !.input = input_r(DocBoth)[1],
                            !.expected_output = output_r(DocBoth)[1],
                            !.test_prompt = TestPromptFull,
                            !.structure_test = "accept",
                            !.model = "m1"]
    /\ files = << Utf8Name(1) >>
    /\ idx = 1
    /\ run = "running"
    /\ cause = ""
    /\ pc = "gen"
    /\ lua = None
    /\ records = <<>>
    /\ checks = <<Check("MatchInput", TRUE)>>

\* Lines 74-75, 108-110: the pattern does not match (as MatchJsonFail).
PayloadNotFound ==
    /\ AwaitingGen
    /\ \E message \in Messages :
        /\ r_find(message) = None
        /\ cur' = [cur EXCEPT !.message = message]
        /\ Record(FailedRow(cur.name, cur.contents,
                            TestError(message, "MatchJson", None)))
    /\ checks' = Append(checks, Check("MatchJson", FALSE))
    /\ UNCHANGED <<lua, calls>>

\* Lines 74-95: the pattern matches; jzml is bound to the match, which the
\* script accepts, and the comparison request is sent (as Compare).
PayloadFound ==
    /\ AwaitingGen
    /\ \E message \in Messages :
        /\ Validated(message)
        /\ Validation(message).ok /\ Validation(message).result
        /\ cur' = [cur EXCEPT !.message = message, !.jzml = r_find(message)[1]]
        /\ lua' = Some(LuaExec(LuaNew, cur.structure_test).lua)
        /\ calls' = Append(calls,
                           Call("test", TestRequest(cur.model, cur.test_prompt,
                                                    cur.input, cur.expected_output,
                                                    r_find(message)[1])))
    /\ checks' = checks \o <<Check("MatchJson", TRUE), Check("Parse", TRUE)>>
    /\ pc' = "test"
    /\ UNCHANGED <<env, files, idx, run, cause, records>>

PayloadNext == PayloadNotFound \/ PayloadFound

PayloadSpec == PayloadInit /\ [][PayloadNext]_vars

IsOpener(c) == c \in {"{", "["}

ClosingOf(c) == IF c = "{" THEN "}" ELSE "]"

\* text[p] is an opening character with a closing character of its kind after it.
ClosedOpenerAt(text, p) ==
    /\ IsOpener(text[p])
    /\ \E q \in (p + 1)..Len(text) : text[q] = ClosingOf(text[p])

\* The substring from the opening character at p to the nearest closing
\* character of its kind after p; <<>> when there is none.
ToNearestClosing(text, p) ==
    IF ClosedOpenerAt(text, p)
    THEN SubSeq(text, p,
                CHOOSE q \in (p + 1)..Len(text) :
                    /\ text[q] = ClosingOf(text[p])
                    /\ \A k \in (p + 1)..(q - 1) : text[k] # ClosingOf(text[p]))
    ELSE <<>>

\* C17 as stated: the payload starts at the first "{" or "[" of the text and
\* ends at the nearest closing character of the same kind after it; the
\* extraction fails only when the text holds no {...} or [...] substring.
C17_StartsAtFirstOpener ==
    Len(checks) >= 2 =>
        /\ checks[2].ok = HasShape(cur.message)
        /\ ~checks[2].ok =>
               CaseRecorded /\ LastRecord.ErrorLocation = "matchjson"
        /\ checks[2].ok =>
               \E p \in 1..Len(cur.message) :
                   /\ IsOpener(cur.message[p])
                   /\ \A k \in 1..(p - 1) : ~IsOpener(cur.message[k])
                   /\ cur.jzml = ToNearestClosing(cur.message, p)

\* C17 amended: the payload starts at the first "{" or "[" that has a
\* closing character of its kind after it and ends at the nearest such
\* closing character; the extraction fails exactly when the text holds no
\* {...} or [...] substring.
C17_StartsAtFirstClosedOpener ==
    Len(checks) >= 2 =>
        /\ checks[2].ok = HasShape(cur.message)
        /\ ~checks[2].ok =>
               CaseRecorded /\ LastRecord.ErrorLocation = "matchjson"
        /\ checks[2].ok =>
               \E p \in 1..Len(cur.message) :
                   /\ ClosedOpenerAt(cur.message, p)
                   /\ \A k \in 1..(p - 1) : ~ClosedOpenerAt(cur.message, k)
                   /\ cur.jzml = ToNearestClosing(cur.message, p)

C17_Witness ==
    /\ Len(checks) >= 2
    /\ checks[2].ok
    /\ pc = "test"
    /\ cur.message = <<"{", "[", "a", "]">>
    /\ cur.jzml = <<"[", "a", "]">>

\* The row records a test case whose payload was handed to the script.
ReachedValidation(row) == row.ErrorLocation \notin {"matchinput", "matchjson"}

\* C18: each test case's validation runs in an interpreter created for it:
\* the globals the script sees hold what this one evaluation wrote and
\* nothing of any other test case, and test cases with the same generated
\* text get the same validation verdict wherever they stand in the run.
C18_FreshInterpreterPerCase ==
    /\ lua # None =>
           lua[1].count = (IF lua[1].test = "stateful" THEN 1 ELSE 0)
    /\ \A i, j \in DOMAIN records :
           ( /\ ReachedValidation(records[i])
             /\ ReachedValidation(records[j])
             /\ records[i].Result = records[j].Result ) =>
               (records[i].ErrorLocation = "parse")
                   = (records[j].ErrorLocation = "parse")

C18_Witness ==
    /\ CaseRecorded
    /\ Len(records) = 2
    /\ cur.structure_test = "stateful"
    /\ lua # None
    /\ lua[1].count = 1
    /\ ReachedValidation(records[1])
    /\ ReachedValidation(records[2])
    /\ records[1].Result = records[2].Result

\* Some setting of the run is missing or unreadable.
ConfigMissing == \E k \in DOMAIN env : env[k] = None

\* C19: the markers are looked for before any setting is read: a document
\* that lacks a marker pair gets its Failed row at matchinput whatever the
\* settings are, missing ones included, and a run aborted by a configuration
\* failure was aborted at a test case whose document holds both marker pairs.
C19_MarkersCheckedBeforeConfiguration ==
    /\ (cur.contents # NoText /\ ~MarkersPresent(cur.contents)) =>
           /\ CaseRecorded
           /\ LastRecord.Name = cur.name
           /\ LastRecord.Status = "Failed"
           /\ LastRecord.ErrorLocation = "matchinput"
           /\ checks = <<Check("MatchInput", FALSE)>>
    /\ (run = "aborted" /\ cause = "Err: configuration") =>
           /\ ConfigMissing
           /\ MarkersPresent(cur.contents)
           /\ checks = <<Check("MatchInput", TRUE)>>
           /\ \A i \in DOMAIN records : records[i].ErrorLocation = "matchinput"

C19_Witness ==
    /\ ConfigMissing
    /\ run = "aborted"
    /\ cause = "Err: configuration"
    /\ Len(records) = 1
    /\ records[1].ErrorLocation = "matchinput"
    /\ ~MarkersPresent(records[1].Input)
    /\ MarkersPresent(cur.contents)

====
